---- MODULE Spec2Model ----
(***************************************************************************)
(* The WebSocket chat relay of server/index.js: the upgrade gate, the      *)
(* connect sequence (connectAsync), the frame handler, the asynchronous    *)
(* persist-then-broadcast chain and the close handler, as one state        *)
(* machine.  Every callback of the event loop is one atomic action; every  *)
(* await of the code is a boundary between two actions.                    *)
(***************************************************************************)
EXTENDS Integers, Sequences, FiniteSets

\* ------------------------------------------------------------------ bounds
MaxEvents == 3      \* connections accepted plus frames handled during one run
MaxRows == 102      \* rows the message table holds when a run starts

\* The connection attempts of one run, numbered in the order they are made.
Conns == {1, 2}

\* ------------------------------------------------------- program constants
HistoryTake == 100  \* findMany({ take: 100 })

\* ------------------------------------------------------------ JS values
\* A value of a decoded JSON payload field.  Strings are sequences of
\* one-character strings so that trim() can be computed.
Undef == [t |-> "undefined"]
Str(s) == [t |-> "string", s |-> s]
Num(n) == [t |-> "number", n |-> n]
Bool(b) == [t |-> "boolean", b |-> b]

\* JS truthiness: the test made by `x || ""` and by Boolean(x).
Truthy(v) ==
  CASE v.t = "undefined" -> FALSE
    [] v.t = "string" -> v.s # <<>>
    [] v.t = "number" -> v.n # 0
    [] v.t = "boolean" -> v.b

\* Decimal digits of a natural number, as a string.
Digit(n) == <<"0", "1", "2", "3", "4", "5", "6", "7", "8", "9">>[n + 1]

RECURSIVE Digits(_)
Digits(n) == IF n < 10 THEN <<Digit(n)>> ELSE Digits(n \div 10) \o <<Digit(n % 10)>>

\* String(v)
JsString(v) ==
  CASE v.t = "undefined" -> <<"u", "n", "d", "e", "f", "i", "n", "e", "d">>
    [] v.t = "string" -> v.s
    [] v.t = "number" -> Digits(v.n)
    [] v.t = "boolean" -> IF v.b THEN <<"t", "r", "u", "e">> ELSE <<"f", "a", "l", "s", "e">>

WhiteSpace == {" ", "\t", "\n"}

RECURSIVE TrimStart(_)
TrimStart(s) ==
  IF s # <<>> /\ Head(s) \in WhiteSpace THEN TrimStart(Tail(s)) ELSE s

RECURSIVE TrimEnd(_)
TrimEnd(s) ==
  IF s # <<>> /\ s[Len(s)] \in WhiteSpace THEN TrimEnd(SubSeq(s, 1, Len(s) - 1)) ELSE s

\* String.prototype.trim
Trim(s) == TrimEnd(TrimStart(s))

\* Faulty variant of MessageText: the text is not trimmed.
MessageTextUntrimmed(v) == JsString(IF Truthy(v) THEN v ELSE Str(<<>>))

\* String(payload.text || "").trim()
MessageText(v) == Trim(JsString(IF Truthy(v) THEN v ELSE Str(<<>>)))

\* Boolean(payload.isTyping)
ToBoolean(v) == Truthy(v)

\* --------------------------------------------------------------- database
\* The rows of the user table (id, username).
Users == {[id |-> 1, username |-> "ann"], [id |-> 2, username |-> "bob"]}

\* What request.session.userId can hold at the upgrade: nothing, the id of a
\* user, or the id of a user that has no row (the session store and the user
\* table are two databases).
NoUserId == 0
StaleUserId == 3

\* The userIds the session of connection attempt c can hold: none, the id of
\* a user without a row, or the id of the attempt's own user (one connection
\* per account).
SessionUserIds(c) == {NoUserId, StaleUserId} \cup {u.id : u \in {v \in Users : v.id = c}}

Null == [id |-> 0, username |-> ""]

\* prisma.user.findUnique({ where: { id } }): the row, or null.
FindUnique(id) ==
  IF \E u \in Users : u.id = id THEN CHOOSE u \in Users : u.id = id ELSE Null

\* The last n elements of a sequence.
LastN(s, n) == IF Len(s) <= n THEN s ELSE SubSeq(s, Len(s) - n + 1, Len(s))

RECURSIVE Reverse(_)
Reverse(s) == IF s = <<>> THEN <<>> ELSE Reverse(Tail(s)) \o <<Head(s)>>

\* Faulty variant of FindMany: the rows taken are the oldest ones.
FindManyOldest(rows) ==
  Reverse(IF Len(rows) <= HistoryTake THEN rows ELSE SubSeq(rows, 1, HistoryTake))

\* prisma.message.findMany({ orderBy: { id: "desc" }, take: 100 }): the rows
\* of the table by descending id.  The table is kept by ascending id.
FindMany(rows) == Reverse(LastN(rows, HistoryTake))

\* ------------------------------------------------------------------ events
\* The payloads the server sends.  src (the connection whose handler built the
\* event) and op (the frame a message came from) are not on the wire: they
\* tell apart two events with equal fields.
WelcomeEvent(c, u) == [type |-> "welcome", id |-> u.id, name |-> u.name, src |-> c]

RowEvent(row) ==
  [type |-> "message", id |-> row.userId, name |-> row.username,
   text |-> row.text, at |-> row.createdAt]

\* Faulty variant of HistoryEvent: the newest row read is left out.
HistoryEventDropsNewest(c, rows) ==
  [type |-> "history",
   messages |-> Reverse([i \in 1..(Len(rows) - 1) |-> RowEvent(rows[i + 1])]),
   src |-> c]

\* historyRows.map(...).reverse()
HistoryEvent(c, rows) ==
  [type |-> "history",
   messages |-> Reverse([i \in 1..Len(rows) |-> RowEvent(rows[i])]),
   src |-> c]

SystemEvent(c) == [type |-> "system", text |-> "Connected to chat server.", src |-> c]

PresenceEvent(c, action, u) ==
  [type |-> "presence", action |-> action, id |-> u.id, name |-> u.name, src |-> c]

MessageEvent(p) ==
  [type |-> "message", id |-> p.sender.id, name |-> p.sender.name,
   text |-> p.text, at |-> p.now, src |-> p.ws, op |-> p.op]

TypingEvent(c, u, b) ==
  [type |-> "typing", id |-> u.id, name |-> u.name, isTyping |-> b, src |-> c]

ErrorEvent(c, text) == [type |-> "error", text |-> text, src |-> c]

\* ------------------------------------------------------------------ frames
\* What one inbound frame can hold: text that is not JSON, the JSON text
\* null, or a JSON object.  An absent field of an object is Undef.
InvalidFrame == [kind |-> "invalid"]
NullFrame == [kind |-> "null"]

ObjectFrame(type, text, isTyping, id) ==
  [kind |-> "object", type |-> type, text |-> text, isTyping |-> isTyping, id |-> id]

TextValues == {Undef, Str(<<" ">>), Str(<<" ", "a", " ">>)}

TypingValues == {Undef}

\* The last frame of each set also claims a sender id of its own.
MessageFrames ==
  {ObjectFrame("message", t, Undef, Undef) : t \in TextValues}
    \cup {ObjectFrame("message", Str(<<"a">>), Undef, Num(2))}

TypingFrames ==
  {ObjectFrame("typing", Undef, v, Undef) : v \in TypingValues}
    \cup {ObjectFrame("typing", Undef, Bool(TRUE), Num(2))}

OtherFrames ==
  {ObjectFrame("set-name", Undef, Undef, Undef), ObjectFrame("", Undef, Undef, Undef)}

Frames == {InvalidFrame, NullFrame} \cup MessageFrames \cup TypingFrames \cup OtherFrames

\* ------------------------------------------------------------------- state
VARIABLES
  phase,       \* per connection attempt: "new", "rejected" (401) or "accepted"
  session,     \* request.session.userId of an accepted connection
  readyState,  \* ws.readyState: "NONE" before there is a socket, else OPEN...
  wssClients,  \* wss.clients
  clients,     \* the Map clients: socket -> { id, name }
  pc,          \* where connectAsync stands
  hist,        \* rows the pending findMany has read
  store,       \* the message table, by ascending id
  pending,     \* prisma.message.create calls in flight
  outbox,      \* per socket, the events written to it while OPEN
  dropped,     \* per socket, the events handed to ws.send while not OPEN
  bcasts,      \* the payloads broadcast() was called with, in call order
  now,         \* the value Date.now() returned last (each reading is later)
  nframes,     \* frames handled so far
  last,        \* the frame handled last and the socket it arrived on
  reclosed,    \* the sockets whose close handler has run more than once
  uncaught     \* exceptions that reached process.on("uncaughtException")

vars ==
  <<phase, session, readyState, wssClients, clients, pc, hist, store, pending,
    outbox, dropped, bcasts, now, nframes, last, reclosed, uncaught>>

Init ==
  /\ phase = [c \in Conns |-> "new"]
  /\ session = [c \in Conns |-> NoUserId]
  /\ readyState = [c \in Conns |-> "NONE"]
  /\ wssClients = {}
  /\ clients = <<>>
  /\ pc = [c \in Conns |-> "idle"]
  /\ hist = [c \in Conns |-> <<>>]
  /\ store = <<>>
  /\ pending = {}
  /\ outbox = [c \in Conns |-> <<>>]
  /\ dropped = [c \in Conns |-> <<>>]
  /\ bcasts = <<>>
  /\ now = 0
  /\ nframes = 0
  /\ last = [ws |-> 0, frame |-> InvalidFrame]
  /\ reclosed = {}
  /\ uncaught = 0

\* ------------------------------------------------------- sending, closing
\* clients.get(ws) is defined
Has(map, c) == c \in DOMAIN map

\* clients.set(ws, u)
MapSet(map, c, u) == [d \in DOMAIN map \cup {c} |-> IF d = c THEN u ELSE map[d]]

\* clients.delete(ws)
MapDelete(map, c) == [d \in DOMAIN map \ {c} |-> map[d]]

\* The two output logs, threaded through the sends of one callback.
IO == [out |-> outbox, drop |-> dropped]

\* Faulty variant of WsSend: a send reaches every socket of the server, not the one it is
\* called on.
WsSendToAll(io, rs, c, ev) ==
  [io EXCEPT !.out = [d \in Conns |->
     IF rs[d] = "OPEN" THEN Append(io.out[d], ev) ELSE io.out[d]]]

\* ws.send(JSON.stringify(ev)): written when the socket is OPEN; the ws
\* library discards the data of a send on a socket that is closing or closed.
WsSend(io, rs, c, ev) ==
  IF rs[c] = "OPEN"
  THEN [io EXCEPT !.out[c] = Append(@, ev)]
  ELSE [io EXCEPT !.drop[c] = Append(@, ev)]

\* Faulty variant of Recipients: the loop ends at the first socket that is
\* not open.
RecipientsUntilClosed(cl, rs) ==
  {d \in cl : \A e \in cl : e <= d => rs[e] = "OPEN"}

\* The sockets broadcast() writes to: for (client of wss.clients)
\* if (client.readyState === 1).
Recipients(cl, rs) == {d \in cl : rs[d] = "OPEN"}

\* broadcast(payload)
Broadcast(io, cl, rs, ev) ==
  [io EXCEPT !.out = [d \in Conns |->
     IF d \in Recipients(cl, rs) THEN Append(io.out[d], ev) ELSE io.out[d]]]

\* Faulty variant of TypingRecipients: the sender is not skipped.
TypingRecipientsAll(cl, rs, c) == {d \in cl : rs[d] = "OPEN"}

\* The sockets the typing loop writes to: client !== ws && readyState === 1.
TypingRecipients(cl, rs, c) == {d \in cl : d # c /\ rs[d] = "OPEN"}

\* ws.close(): starts the closing handshake of an open socket.
WsClose(rs, c) == IF rs[c] = "OPEN" THEN [rs EXCEPT ![c] = "CLOSING"] ELSE rs

\* --------------------------------------------------------------- upgrade
\* What the run has handled so far: accepted connections and frames.
Load == Cardinality({c \in Conns : phase[c] = "accepted"}) + nframes

\* server.on("upgrade"): no userId in the session -> 401, the socket is
\* destroyed and no WebSocket is made.
UpgradeReject(c) ==
  /\ phase[c] = "new"
  /\ \A d \in Conns : d < c => phase[d] # "new"
  /\ phase' = [phase EXCEPT ![c] = "rejected"]
  /\ UNCHANGED <<session, readyState, wssClients, clients, pc, hist, store, pending,
                 outbox, dropped, bcasts, now, nframes, last, reclosed, uncaught>>

\* server.on("upgrade") with a userId in the session: handleUpgrade makes the
\* WebSocket (OPEN, in wss.clients) and the connection handler starts
\* connectAsync, which runs up to its first await (findUnique).
UpgradeAccept(c, sid) ==
  /\ phase[c] = "new"
  /\ \A d \in Conns : d < c => phase[d] # "new"
  /\ sid # NoUserId
  /\ Load < MaxEvents
  /\ phase' = [phase EXCEPT ![c] = "accepted"]
  /\ session' = [session EXCEPT ![c] = sid]
  /\ readyState' = [readyState EXCEPT ![c] = "OPEN"]
  /\ wssClients' = wssClients \cup {c}
  /\ pc' = [pc EXCEPT ![c] = "lookup"]
  /\ UNCHANGED <<clients, hist, store, pending, outbox, dropped, bcasts, now,
                 nframes, last, reclosed, uncaught>>

\* --------------------------------------------------------- connectAsync
\* const clientUser = { id: user.id, name: user.username }: a constant of the
\* closure of connectAsync, fixed by the row findUnique returned.
ClientUser(c) ==
  [id |-> FindUnique(session[c]).id, name |-> FindUnique(session[c]).username]

\* Faulty variant of LookupMissing: the socket is registered before it is
\* closed.
LookupMissingRegisters(c) ==
  /\ pc[c] = "lookup"
  /\ FindUnique(session[c]) = Null
  /\ clients' = MapSet(clients, c, [id |-> session[c], name |-> ""])
  /\ readyState' = WsClose(readyState, c)
  /\ pc' = [pc EXCEPT ![c] = "done"]
  /\ UNCHANGED <<phase, session, wssClients, hist, store, pending, outbox,
                 dropped, bcasts, now, nframes, last, reclosed, uncaught>>

\* findUnique resolved with null: ws.close(); return.
LookupMissing(c) ==
  /\ pc[c] = "lookup"
  /\ FindUnique(session[c]) = Null
  /\ readyState' = WsClose(readyState, c)
  /\ pc' = [pc EXCEPT ![c] = "done"]
  /\ UNCHANGED <<phase, session, wssClients, clients, hist, store, pending, outbox,
                 dropped, bcasts, now, nframes, last, reclosed, uncaught>>

\* findUnique rejected: connectAsync().catch(() => ws.close()).
LookupReject(c) ==
  /\ pc[c] = "lookup"
  /\ readyState' = WsClose(readyState, c)
  /\ pc' = [pc EXCEPT ![c] = "done"]
  /\ UNCHANGED <<phase, session, wssClients, clients, hist, store, pending, outbox,
                 dropped, bcasts, now, nframes, last, reclosed, uncaught>>

\* findUnique resolved with a row: clients.set, ws.send(welcome), then the
\* findMany is issued and awaited.
LookupFound(c) ==
  /\ pc[c] = "lookup"
  /\ FindUnique(session[c]) # Null
  /\ LET io == WsSend(IO, readyState, c, WelcomeEvent(c, ClientUser(c)))
     IN /\ clients' = MapSet(clients, c, ClientUser(c))
        /\ outbox' = io.out
        /\ dropped' = io.drop
  /\ pc' = [pc EXCEPT ![c] = "history"]
  /\ UNCHANGED <<phase, session, readyState, wssClients, hist, store, pending,
                 bcasts, now, nframes, last, reclosed, uncaught>>

\* The database runs the findMany: the rows it returns are those of now.
HistoryRead(c) ==
  /\ pc[c] = "history"
  /\ hist' = [hist EXCEPT ![c] = FindMany(store)]
  /\ pc' = [pc EXCEPT ![c] = "rows"]
  /\ UNCHANGED <<phase, session, readyState, wssClients, clients, store, pending,
                 outbox, dropped, bcasts, now, nframes, last, reclosed, uncaught>>

\* Faulty variant of ConnectTail: the join is broadcast before the history and the greeting are sent.
ConnectTailJoinFirst(io, cl, rs, c, rows) ==
  WsSend(
    WsSend(Broadcast(io, cl, rs, PresenceEvent(c, "join", ClientUser(c))),
           rs, c, HistoryEvent(c, rows)),
    rs, c, SystemEvent(c))

\* What the rest of connectAsync sends once findMany has resolved:
\* ws.send(history), ws.send(system), broadcast(presence join).
ConnectTail(io, cl, rs, c, rows) ==
  Broadcast(
    WsSend(WsSend(io, rs, c, HistoryEvent(c, rows)), rs, c, SystemEvent(c)),
    cl, rs, PresenceEvent(c, "join", ClientUser(c)))

\* findMany resolved: the continuation of connectAsync.
HistoryResolve(c) ==
  /\ pc[c] = "rows"
  /\ LET io == ConnectTail(IO, wssClients, readyState, c, hist[c])
     IN /\ outbox' = io.out
        /\ dropped' = io.drop
  /\ bcasts' = Append(bcasts, PresenceEvent(c, "join", ClientUser(c)))
  /\ hist' = [hist EXCEPT ![c] = <<>>]
  /\ pc' = [pc EXCEPT ![c] = "done"]
  /\ UNCHANGED <<phase, session, readyState, wssClients, clients, store, pending,
                 now, nframes, last, reclosed, uncaught>>

\* findMany rejected: connectAsync().catch(() => ws.close()).
HistoryReject(c) ==
  /\ pc[c] = "history"
  /\ readyState' = WsClose(readyState, c)
  /\ pc' = [pc EXCEPT ![c] = "done"]
  /\ UNCHANGED <<phase, session, wssClients, clients, hist, store, pending, outbox,
                 dropped, bcasts, now, nframes, last, reclosed, uncaught>>

\* ------------------------------------------------------- ws.on("message")
\* An exception leaves the handler: it reaches process.on("uncaughtException"),
\* which logs it, and the process goes on.  Whether the socket's receiver
\* emits further frames after it was unwound is left open: no frame is ever
\* bound to arrive.
Throws(c) ==
  /\ uncaught' = uncaught + 1
  /\ UNCHANGED <<pending, outbox, dropped, now>>

\* JSON.parse threw: ws.send(error "Invalid JSON."); return.
InvalidJson(c) ==
  LET io == WsSend(IO, readyState, c, ErrorEvent(c, "Invalid JSON."))
  IN /\ outbox' = io.out
     /\ dropped' = io.drop
     /\ UNCHANGED <<pending, uncaught, now>>

\* Faulty variant of MessageBranch: an id the frame supplies is taken as the
\* sender's id.
MessageBranchTrustsFrame(c, f) ==
  LET text == MessageText(f.text)
  IN IF text = <<>>
     THEN UNCHANGED <<pending, outbox, dropped, uncaught, now>>
     ELSE IF ~Has(clients, c)
     THEN Throws(c)
     ELSE /\ now' = now + 1
          /\ pending' = pending \cup
               {[op |-> nframes + 1, ws |-> c,
                 sender |-> IF f.id.t = "number"
                            THEN [id |-> f.id.n, name |-> clients[c].name]
                            ELSE clients[c],
                 text |-> text, now |-> now', st |-> "sent"]}
          /\ UNCHANGED <<outbox, dropped, uncaught>>

\* payload.type === "message"
MessageBranch(c, f) ==
  LET text == MessageText(f.text)
  IN IF text = <<>>
     THEN UNCHANGED <<pending, outbox, dropped, uncaught, now>>
     ELSE IF ~Has(clients, c)
     THEN Throws(c)
     ELSE /\ now' = now + 1
          /\ pending' = pending \cup
               {[op |-> nframes + 1, ws |-> c, sender |-> clients[c], text |-> text,
                 now |-> now', st |-> "sent"]}
          /\ UNCHANGED <<outbox, dropped, uncaught>>

\* payload.type === "typing"
TypingBranch(c, f) ==
  IF ~Has(clients, c)
  THEN Throws(c)
  ELSE LET ev == TypingEvent(c, clients[c], ToBoolean(f.isTyping))
       IN /\ outbox' = [d \in Conns |->
               IF d \in TypingRecipients(wssClients, readyState, c)
               THEN Append(outbox[d], ev) ELSE outbox[d]]
          /\ UNCHANGED <<pending, dropped, uncaught, now>>

\* Faulty variant of Dispatch: a type that is neither "message" nor
\* "typing" is answered with an error.
DispatchReportsUnknown(c, f) ==
  CASE f.kind = "invalid" -> InvalidJson(c)
    [] f.kind = "null" -> Throws(c)
    [] f.kind = "object" /\ f.type = "message" -> MessageBranch(c, f)
    [] f.kind = "object" /\ f.type = "typing" -> TypingBranch(c, f)
    [] OTHER ->
         LET io == WsSend(IO, readyState, c, ErrorEvent(c, "Unknown type."))
         IN /\ outbox' = io.out
            /\ dropped' = io.drop
            /\ UNCHANGED <<pending, uncaught, now>>

\* What the handler does with one frame.
Dispatch(c, f) ==
  CASE f.kind = "invalid" -> InvalidJson(c)
    [] f.kind = "null" -> Throws(c)
    [] f.kind = "object" /\ f.type = "message" -> MessageBranch(c, f)
    [] f.kind = "object" /\ f.type = "typing" -> TypingBranch(c, f)
    [] OTHER -> UNCHANGED <<pending, outbox, dropped, uncaught, now>>

\* Faulty variant of OnMessage: a set-name frame renames the sender in the
\* registry.
OnMessageRenames(c, f) ==
  /\ Load < MaxEvents
  /\ readyState[c] \in {"OPEN", "CLOSING"}
  /\ nframes' = nframes + 1
  /\ last' = [ws |-> c, frame |-> f]
  /\ Dispatch(c, f)
  /\ clients' =
       IF f.kind = "object" /\ f.type = "set-name" /\ Has(clients, c)
       THEN [clients EXCEPT ![c].name = "renamed"]
       ELSE clients
  /\ UNCHANGED <<phase, session, readyState, wssClients, pc, hist, store,
                 bcasts, reclosed>>

\* One frame arrives on socket c.
OnMessage(c, f) ==
  /\ Load < MaxEvents
  /\ readyState[c] \in {"OPEN", "CLOSING"}
  /\ nframes' = nframes + 1
  /\ last' = [ws |-> c, frame |-> f]
  /\ Dispatch(c, f)
  /\ UNCHANGED <<phase, session, readyState, wssClients, clients, pc, hist, store,
                 bcasts, reclosed>>

\* ------------------------------------------- prisma.message.create(...)
\* The database appends the row.
CreateCommit(p) ==
  /\ p \in pending
  /\ p.st = "sent"
  /\ store' = Append(store,
       [id |-> Len(store) + 1, userId |-> p.sender.id, username |-> p.sender.name,
        text |-> p.text, createdAt |-> p.now])
  /\ pending' = (pending \ {p}) \cup {[p EXCEPT !.st = "stored"]}
  /\ UNCHANGED <<phase, session, readyState, wssClients, clients, pc, hist, outbox,
                 dropped, bcasts, now, nframes, last, reclosed, uncaught>>

\* .then(() => broadcast(message))
CreateThen(p) ==
  /\ p \in pending
  /\ p.st = "stored"
  /\ LET io == Broadcast(IO, wssClients, readyState, MessageEvent(p))
     IN /\ outbox' = io.out
        /\ dropped' = io.drop
  /\ bcasts' = Append(bcasts, MessageEvent(p))
  /\ pending' = pending \ {p}
  /\ UNCHANGED <<phase, session, readyState, wssClients, clients, pc, hist, store,
                 now, nframes, last, reclosed, uncaught>>

\* Faulty variant of CreateCatch: the catch relays the message that was not stored.
CreateCatchRelays(p) ==
  /\ p \in pending
  /\ p.st = "sent"
  /\ LET io == Broadcast(IO, wssClients, readyState, MessageEvent(p))
     IN /\ outbox' = io.out
        /\ dropped' = io.drop
  /\ bcasts' = Append(bcasts, MessageEvent(p))
  /\ pending' = pending \ {p}
  /\ UNCHANGED <<phase, session, readyState, wssClients, clients, pc, hist, store,
                 now, nframes, last, reclosed, uncaught>>

\* The create rejected: .catch(() => ws.send(error "Failed to save message.")).
CreateCatch(p) ==
  /\ p \in pending
  /\ p.st = "sent"
  /\ LET io == WsSend(IO, readyState, p.ws, ErrorEvent(p.ws, "Failed to save message."))
     IN /\ outbox' = io.out
        /\ dropped' = io.drop
  /\ pending' = pending \ {p}
  /\ UNCHANGED <<phase, session, readyState, wssClients, clients, pc, hist, store,
                 bcasts, now, nframes, last, reclosed, uncaught>>

\* ----------------------------------------------------------------- close
\* Faulty variant of CloseHandler: the entry is not deleted.
CloseHandlerKeeps(c, cl, rs) ==
  /\ clients' = clients
  /\ IF Has(clients, c)
     THEN LET io == Broadcast(IO, cl, rs, PresenceEvent(c, "leave", clients[c]))
          IN /\ outbox' = io.out
             /\ dropped' = io.drop
             /\ bcasts' = Append(bcasts, PresenceEvent(c, "leave", clients[c]))
     ELSE UNCHANGED <<outbox, dropped, bcasts>>

\* Faulty variant of CloseHandler: before the leave, the peers are told that
\* the user stopped typing.
CloseHandlerStopsTyping(c, cl, rs) ==
  /\ clients' = MapDelete(clients, c)
  /\ IF Has(clients, c)
     THEN LET io == Broadcast(
                      Broadcast(IO, cl, rs, TypingEvent(c, clients[c], FALSE)),
                      cl, rs, PresenceEvent(c, "leave", clients[c]))
          IN /\ outbox' = io.out
             /\ dropped' = io.drop
             /\ bcasts' = Append(bcasts, PresenceEvent(c, "leave", clients[c]))
     ELSE UNCHANGED <<outbox, dropped, bcasts>>

\* ws.on("close"): left = clients.get(ws); clients.delete(ws);
\* if (left) broadcast(presence leave).  cl and rs are wss.clients and the
\* ready states at the time the handler runs.
CloseHandler(c, cl, rs) ==
  /\ clients' = MapDelete(clients, c)
  /\ IF Has(clients, c)
     THEN LET io == Broadcast(IO, cl, rs, PresenceEvent(c, "leave", clients[c]))
          IN /\ outbox' = io.out
             /\ dropped' = io.drop
             /\ bcasts' = Append(bcasts, PresenceEvent(c, "leave", clients[c]))
     ELSE UNCHANGED <<outbox, dropped, bcasts>>

\* The connection ends (the peer closed it, the closing handshake the server
\* began is over, or the network dropped it): the socket is CLOSED, the
\* server's own listener removes it from wss.clients, then the close handler
\* runs.
SocketClose(c) ==
  /\ readyState[c] \in {"OPEN", "CLOSING"}
  /\ readyState' = [readyState EXCEPT ![c] = "CLOSED"]
  /\ wssClients' = wssClients \ {c}
  /\ CloseHandler(c, wssClients', readyState')
  /\ UNCHANGED <<phase, session, pc, hist, store, pending, now, nframes, last,
                 reclosed, uncaught>>

\* The transport signals the end of a connection that has ended already, and
\* the close handler runs once more.
CloseAgain(c) ==
  /\ readyState[c] = "CLOSED"
  /\ reclosed' = reclosed \cup {c}
  /\ CloseHandler(c, wssClients, readyState)
  /\ UNCHANGED <<phase, session, readyState, wssClients, pc, hist, store, pending,
                 now, nframes, last, uncaught>>

\* ------------------------------------------------------------------ system
Next ==
  \/ \E c \in Conns : UpgradeReject(c)
  \/ \E c \in Conns : \E sid \in SessionUserIds(c) : UpgradeAccept(c, sid)
  \/ \E c \in Conns : LookupMissing(c)
  \/ \E c \in Conns : LookupReject(c)
  \/ \E c \in Conns : LookupFound(c)
  \/ \E c \in Conns : HistoryRead(c)
  \/ \E c \in Conns : HistoryResolve(c)
  \/ \E c \in Conns : HistoryReject(c)
  \/ \E c \in Conns, f \in Frames : OnMessage(c, f)
  \/ \E p \in pending : CreateCommit(p)
  \/ \E p \in pending : CreateThen(p)
  \/ \E p \in pending : CreateCatch(p)
  \/ \E c \in Conns : SocketClose(c)

Spec == Init /\ [][Next]_vars

\* The server under a transport that may signal a close more than once.
NextReclose == Next \/ \E c \in Conns : CloseAgain(c)

SpecReclose == Init /\ [][NextReclose]_vars

\* ------------------------------------------- a server over a filled table
\* The message table outlives the server process: a run can start with the
\* rows earlier runs have stored.  Row i of such a table, stored at time i by
\* one of the two users.
PreloadedRow(i) ==
  [id |-> i, userId |-> 1 + (i % 2),
   username |-> IF i % 2 = 0 THEN "ann" ELSE "bob",
   text |-> <<"a">>, createdAt |-> i]

\* The server starts over a table of at most MaxRows rows.
InitHistory ==
  /\ phase = [c \in Conns |-> "new"]
  /\ session = [c \in Conns |-> NoUserId]
  /\ readyState = [c \in Conns |-> "NONE"]
  /\ wssClients = {}
  /\ clients = <<>>
  /\ pc = [c \in Conns |-> "idle"]
  /\ hist = [c \in Conns |-> <<>>]
  /\ \E n \in 0..MaxRows :
       /\ store = [i \in 1..n |-> PreloadedRow(i)]
       /\ now = n
  /\ pending = {}
  /\ outbox = [c \in Conns |-> <<>>]
  /\ dropped = [c \in Conns |-> <<>>]
  /\ bcasts = <<>>
  /\ nframes = 0
  /\ last = [ws |-> 0, frame |-> InvalidFrame]
  /\ reclosed = {}
  /\ uncaught = 0

\* The frame the users of such a run send.
HistoryFrame == ObjectFrame("message", Str(<<" ", "a", " ">>), Undef, Undef)

\* Users connect and chat, and every database call succeeds.
NextHistory ==
  \/ \E c \in Conns : UpgradeAccept(c, c)
  \/ \E c \in Conns : LookupFound(c)
  \/ \E c \in Conns : HistoryRead(c)
  \/ \E c \in Conns : HistoryResolve(c)
  \/ \E c \in Conns : OnMessage(c, HistoryFrame)
  \/ \E p \in pending : CreateCommit(p)
  \/ \E p \in pending : CreateThen(p)

SpecHistory == InitHistory /\ [][NextHistory]_vars

\* ============================================================== properties
\* Vocabulary of the properties below.
Idx(s) == 1..Len(s)

\* Socket d is registered and open.
Active(d) == Has(clients, d) /\ readyState[d] = "OPEN"

\* The events handed to socket d (written or discarded) by the step taken.
Sent(d) ==
  SubSeq(outbox'[d], Len(outbox[d]) + 1, Len(outbox'[d]))
    \o SubSeq(dropped'[d], Len(dropped[d]) + 1, Len(dropped'[d]))

\* The step taken handles one frame (last' tells which, and on which socket).
FrameStep == nframes' = nframes + 1

IsPresence(e, action, c) == e.type = "presence" /\ e.action = action /\ e.src = c

\* The message table holds a row with the four fields of message event e.
Stored(e) ==
  \E j \in Idx(store) :
    /\ store[j].userId = e.id
    /\ store[j].username = e.name
    /\ store[j].text = e.text
    /\ store[j].createdAt = e.at

\* Row j of the table has been broadcast as a message event.
Relayed(j) ==
  \E i \in Idx(bcasts) :
    /\ bcasts[i].type = "message"
    /\ bcasts[i].id = store[j].userId
    /\ bcasts[i].name = store[j].username
    /\ bcasts[i].text = store[j].text
    /\ bcasts[i].at = store[j].createdAt

\* C1: no relay without persistence.  Every message event that was broadcast,
\* and every message event a socket received, has its row in the table with
\* the same sender id, sender name, text and timestamp (so the append came
\* first, and a failed append is never relayed); and every row of the table
\* has been broadcast, or its create is the one whose then-callback has not
\* run yet.
C1_NoRelayWithoutPersistence ==
  /\ \A i \in Idx(bcasts) : bcasts[i].type = "message" => Stored(bcasts[i])
  /\ \A c \in Conns : \A i \in Idx(outbox[c]) :
       outbox[c][i].type = "message" => Stored(outbox[c][i])
  /\ \A j \in Idx(store) :
       \/ Relayed(j)
       \/ \E p \in pending : p.st = "stored" /\ p.now = store[j].createdAt

\* A peer has received the relayed message of another socket, and the row is
\* in the table.
C1_Witness ==
  \E c \in Conns : \E d \in Conns \ {c} : \E i \in Idx(outbox[d]) :
    /\ outbox[d][i].type = "message"
    /\ outbox[d][i].src = c
    /\ Stored(outbox[d][i])
    /\ pending = {}

\* The create of p has failed in the step taken: it is no longer in flight
\* and the table has not grown.
CreateFailed(p) ==
  /\ p \in pending
  /\ p.st = "sent"
  /\ \A q \in pending' : q.op # p.op
  /\ store' = store

\* C2: when the append of a message fails, nothing is broadcast, exactly one
\* event, an error, is handed to the originating socket, no other socket is
\* handed anything, and the registry and the sockets' states stay as they
\* were (the originating connection stays registered).
C2_AppendFailureIsLocal ==
  [][\A p \in pending :
       CreateFailed(p) =>
         /\ bcasts' = bcasts
         /\ Len(Sent(p.ws)) = 1
         /\ Sent(p.ws)[1].type = "error"
         /\ \A d \in Conns \ {p.ws} : Sent(d) = <<>>
         /\ clients' = clients
         /\ readyState' = readyState
         /\ wssClients' = wssClients]_vars

\* A registered, open socket has received the error of its failed append while
\* another socket was open.
C2_Witness ==
  \E c \in Conns : \E d \in Conns \ {c} :
    /\ Active(c)
    /\ readyState[d] = "OPEN"
    /\ store = <<>>
    /\ \E i \in Idx(outbox[c]) :
         outbox[c][i].type = "error" /\ outbox[c][i].text = "Failed to save message."

\* The events of its own connect sequence that socket c has received.
ConnectEvents(c) ==
  LET Own(e) ==
        /\ e.src = c
        /\ \/ e.type \in {"welcome", "history", "system"}
           \/ IsPresence(e, "join", c)
  IN SelectSeq(outbox[c], Own)

\* C3: a socket that has received the presence join of its own arrival has
\* received, of its connect sequence, exactly welcome, history, system and
\* that join, in this order.
C3_OwnJoinAfterGreeting ==
  \A c \in Conns :
    (\E i \in Idx(outbox[c]) : IsPresence(outbox[c][i], "join", c)) =>
      [i \in Idx(ConnectEvents(c)) |-> ConnectEvents(c)[i].type]
        = <<"welcome", "history", "system", "presence">>

\* A socket has received its own join after an event another connection
\* caused, which arrived between its welcome and its history.
C3_Witness ==
  \E c \in Conns : \E i, j, k \in Idx(outbox[c]) :
    /\ i < j /\ j < k
    /\ outbox[c][i].type = "welcome"
    /\ outbox[c][j].src # c
    /\ outbox[c][k].type = "history"
    /\ \E l \in Idx(outbox[c]) : IsPresence(outbox[c][l], "join", c)

\* Everything socket c was handed so far, written or discarded.
Handed(c) == outbox[c] \o dropped[c]

\* Socket c has been entered in the registry at some time: the welcome is
\* sent by the callback that makes the entry.
WasRegistered(c) ==
  \E i \in Idx(Handed(c)) : Handed(c)[i].type = "welcome" /\ Handed(c)[i].src = c

\* A presence event of the given action about socket c has been broadcast.
Announced(c, action) == \E i \in Idx(bcasts) : IsPresence(bcasts[i], action, c)

\* C4: join visibility.  Once connectAsync of a socket that was registered is
\* over, nothing can broadcast its join any more; so the join of every
\* registered socket whose connectAsync is over has been broadcast, and the
\* step that broadcasts it hands it to every registered, open socket.
C4_JoinVisibility ==
  /\ [](\A c \in Conns : (WasRegistered(c) /\ pc[c] = "done") => Announced(c, "join"))
  /\ [][\A c \in Conns :
          (~Announced(c, "join") /\ Announced(c, "join")') =>
            \A d \in Conns : Active(d) =>
              \E i \in Idx(Sent(d)) : IsPresence(Sent(d)[i], "join", c)]_vars

\* How many presence leave events about socket c the sequence s holds.
Leaves(s, c) ==
  LET IsLeave(e) == IsPresence(e, "leave", c)
  IN Len(SelectSeq(s, IsLeave))

\* C5: leave visibility.  When a registered, open socket c closes, every other
\* registered, open socket is handed exactly one event in that step, the
\* presence leave with the identity c was registered with, and c is off the
\* registry; no socket ever holds two leaves about the same socket; and once
\* the leave of c has been broadcast, a further run of the close handler of c
\* changes neither the registry nor what was broadcast or sent.
C5_LeaveVisibility ==
  /\ [][\A c \in Conns :
          (Active(c) /\ readyState'[c] = "CLOSED") =>
            /\ ~Has(clients', c)
            /\ \A d \in Conns \ {c} :
                 Active(d) => Sent(d) = <<PresenceEvent(c, "leave", clients[c])>>]_vars
  /\ [](\A c \in Conns :
          /\ Leaves(bcasts, c) <= 1
          /\ \A d \in Conns : Leaves(Handed(d), c) <= 1)
  /\ [][\A c \in Conns :
          (Announced(c, "leave") /\ c \notin reclosed /\ c \in reclosed') =>
            UNCHANGED <<clients, bcasts, outbox, dropped>>]_vars

\* The close handler of a socket has run again after its leave was broadcast,
\* and a socket that is still registered and open holds exactly one leave
\* about it.
C5_Witness ==
  \E c \in reclosed : \E d \in Conns \ {c} :
    /\ Active(d)
    /\ Announced(c, "leave")
    /\ Leaves(outbox[d], c) = 1

\* The text field v of a frame is empty after coercion and trimming: it is
\* absent, false, zero, or a string of white space only.
IsBlank(v) ==
  \/ v.t = "undefined"
  \/ v.t = "boolean" /\ ~v.b
  \/ v.t = "number" /\ v.n = 0
  \/ v.t = "string" /\ \A i \in Idx(v.s) : v.s[i] \in WhiteSpace

\* The step taken handles a frame that decodes to an object of the given type.
ObjectStep(type) ==
  /\ FrameStep
  /\ last'.frame.kind = "object"
  /\ last'.frame.type = type

\* C6: a message frame whose text is blank changes nothing: no row is stored,
\* no create is issued, nothing is broadcast, no socket is handed any event
\* (so no error goes to the sender), and the registry, the sockets and the
\* clock stay as they were.
C6_BlankMessageIsNoOp ==
  [][(ObjectStep("message") /\ IsBlank(last'.frame.text)) =>
       UNCHANGED <<store, pending, bcasts, outbox, dropped, clients, wssClients,
                   readyState, uncaught, now>>]_vars

\* A registered, open socket has sent a message frame of one space while
\* another socket was open.
C6_Witness ==
  /\ last.frame = ObjectFrame("message", Str(<<" ">>), Undef, Undef)
  /\ Active(last.ws)
  /\ \E d \in Conns \ {last.ws} : readyState[d] = "OPEN"

\* C7: typing self-exclusion.  A typing frame is never answered to its sender
\* and stores nothing; when the sender is registered, every other open socket
\* is handed exactly the typing event with the sender's registered identity,
\* and no other socket is handed anything.  No socket ever holds a typing
\* event of its own.
C7_TypingSelfExclusion ==
  /\ [][ObjectStep("typing") =>
          LET c == last'.ws
          IN /\ Sent(c) = <<>>
             /\ UNCHANGED <<store, pending, bcasts, clients>>
             /\ Has(clients, c) =>
                  \A d \in Conns \ {c} :
                    Sent(d) =
                      IF readyState[d] = "OPEN"
                      THEN <<[type |-> "typing", id |-> clients[c].id,
                              name |-> clients[c].name,
                              isTyping |-> Truthy(last'.frame.isTyping),
                              src |-> c]>>
                      ELSE <<>>]_vars
  /\ [](\A c \in Conns : \A i \in Idx(Handed(c)) :
          ~(Handed(c)[i].type = "typing" /\ Handed(c)[i].src = c))

\* An open socket holds the typing event of another socket, which is
\* registered and open and whose typing frame was the last frame handled.
C7_Witness ==
  \E d \in Conns \ {last.ws} :
    /\ last.frame \in TypingFrames
    /\ Active(last.ws)
    /\ readyState[d] = "OPEN"
    /\ \E i \in Idx(outbox[d]) :
         outbox[d][i].type = "typing" /\ outbox[d][i].src = last.ws

\* The step taken handles a frame that does not decode to an object: text
\* that is not JSON, or the JSON text null.
MalformedStep ==
  /\ FrameStep
  /\ last'.frame.kind \in {"invalid", "null"}

\* C8: a frame that does not decode to an event object is answered with
\* exactly one event, an error, handed to the socket it arrived on; no other
\* socket is handed anything, nothing is stored or broadcast, no exception
\* escapes the handler, and the registry and the sockets stay as they were
\* (so the frames that follow are handled as if this one had not arrived).
C8_MalformedFrameIsLocal ==
  [][MalformedStep =>
       LET c == last'.ws
       IN /\ Len(Sent(c)) = 1
          /\ Sent(c)[1].type = "error"
          /\ \A d \in Conns \ {c} : Sent(d) = <<>>
          /\ UNCHANGED <<store, pending, bcasts, clients, wssClients, readyState,
                         uncaught>>]_vars

\* The step taken handles a frame that decodes to an object whose type is
\* neither "message" nor "typing".
UnknownTypeStep ==
  /\ FrameStep
  /\ last'.frame.kind = "object"
  /\ last'.frame.type \notin {"message", "typing"}

\* C9 as stated: a frame of unknown type is answered with one error event to
\* the socket it arrived on, and to no other.
C9_UnknownTypeReported ==
  [][UnknownTypeStep =>
       /\ Len(Sent(last'.ws)) = 1
       /\ Sent(last'.ws)[1].type = "error"
       /\ \A d \in Conns \ {last'.ws} : Sent(d) = <<>>]_vars

\* C9: a frame of unknown type is ignored: no socket is handed any event,
\* nothing is stored or broadcast, no exception escapes, and the registry and
\* the sockets stay as they were.
C9_UnknownTypeIgnored ==
  [][UnknownTypeStep =>
       UNCHANGED <<store, pending, bcasts, outbox, dropped, clients, wssClients,
                   readyState, uncaught, now>>]_vars

\* A registered, open socket has sent a set-name frame while another socket
\* was open.
C9_Witness ==
  /\ last.frame = ObjectFrame("set-name", Undef, Undef, Undef)
  /\ Active(last.ws)
  /\ \E d \in Conns \ {last.ws} : readyState[d] = "OPEN"

\* The identity of connection attempt c cannot be resolved: its session holds
\* no userId, or the userId of no row.
Unresolvable(c) == phase[c] # "new" /\ FindUnique(session[c]) = Null

\* Socket c is off the registry and no presence event about it was broadcast.
Unseen(c) == ~Has(clients, c) /\ ~Announced(c, "join") /\ ~Announced(c, "leave")

\* C10 as stated: a connection whose identity cannot be resolved never gets a
\* socket, is never registered and is never announced.
C10_RejectedBeforeAccepted ==
  \A c \in Conns :
    Unresolvable(c) =>
      /\ phase[c] = "rejected"
      /\ readyState[c] = "NONE"
      /\ c \notin wssClients
      /\ Unseen(c)

\* C10: an attempt without a userId in its session never gets a socket.  An
\* attempt whose userId has no row, or whose user lookup fails, gets a socket,
\* which the server closes when the lookup is over, without registering it
\* and without sending or broadcasting anything.  Such a socket is not
\* registered and not announced at any time, its close included.
C10_FailedResolutionNeverRegistered ==
  /\ [](\A c \in Conns :
          /\ session[c] = NoUserId =>
               phase[c] # "accepted" /\ readyState[c] = "NONE" /\ c \notin wssClients
          /\ Unresolvable(c) => Unseen(c))
  /\ [][\A c \in Conns :
          (pc[c] = "lookup" /\ pc'[c] = "done") =>
            /\ readyState'[c] # "OPEN"
            /\ UNCHANGED <<clients, bcasts, outbox, dropped>>]_vars
  /\ [][\A c \in Conns : (pc[c] = "done" /\ Unseen(c)) => Unseen(c)']_vars

\* A socket whose userId has no row was accepted and has closed, while another
\* socket, registered and open, had its join broadcast.
C10_Witness ==
  \E c \in Conns : \E d \in Conns \ {c} :
    /\ session[c] = StaleUserId
    /\ readyState[c] = "CLOSED"
    /\ Active(d)
    /\ Announced(d, "join")

\* Socket c was accepted and its connectAsync ended without registering it:
\* findUnique resolved with null, or rejected.
ResolutionRejected(c) ==
  /\ phase[c] = "accepted"
  /\ pc[c] = "done"
  /\ ~WasRegistered(c)

\* C11: nothing was written to a socket whose identity resolution was
\* rejected: no event of any type, neither in reply to a frame of its own nor
\* from a broadcast another connection caused.
C11_RejectedReceivesNothing ==
  \A c \in Conns : ResolutionRejected(c) => outbox[c] = <<>>

\* The smaller of two numbers.
Min(a, b) == IF a <= b THEN a ELSE b

\* The message row r as an entry of a history event.
Entry(r) ==
  [type |-> "message", id |-> r.userId, name |-> r.username, text |-> r.text,
   at |-> r.createdAt]

\* The entries of the Min(HistoryTake, n) most recent of the first n rows of
\* the table, oldest first.
Recent(n) ==
  [i \in 1..Min(HistoryTake, n) |-> Entry(store[n - Min(HistoryTake, n) + i])]

\* C12: the query of a joining connection reads the Min(100, n) most recent of
\* the n rows the table holds at that time, newest first, and the history
\* event sent to the connection lists exactly the rows read, oldest first: the
\* event holds the entries of the Min(100, n) most recent rows in
\* chronological order (n is the size the table had at most MaxEvents stored
\* rows ago).
C12_HistoryBoundAndOrder ==
  /\ [][\A c \in Conns :
          (pc[c] = "history" /\ pc'[c] = "rows") =>
            /\ Len(hist'[c]) = Min(HistoryTake, Len(store))
            /\ \A i \in Idx(hist'[c]) : hist'[c][i] = store[Len(store) - i + 1]]_vars
  /\ [][\A c \in Conns :
          (pc[c] = "rows" /\ pc'[c] = "done") =>
            /\ Sent(c) # <<>>
            /\ Sent(c)[1].type = "history"
            /\ Len(Sent(c)[1].messages) = Len(hist[c])
            /\ \A i \in Idx(hist[c]) :
                 Sent(c)[1].messages[i] = Entry(hist[c][Len(hist[c]) - i + 1])]_vars
  /\ [](\A c \in Conns : \A i \in Idx(outbox[c]) :
          (outbox[c][i].type = "history") =>
            \E n \in 0..Len(store) :
              /\ Len(store) - n <= MaxEvents
              /\ outbox[c][i].messages = Recent(n))

\* A connection that joined over a table of more than 100 rows holds a
\* history of exactly 100 entries, which starts after the first row of the
\* table and runs in the order of the timestamps.
C12_Witness ==
  \E c \in Conns : \E i \in Idx(outbox[c]) :
    /\ outbox[c][i].type = "history"
    /\ Len(store) > HistoryTake
    /\ Len(outbox[c][i].messages) = HistoryTake
    /\ outbox[c][i].messages[1].at > store[1].createdAt
    /\ outbox[c][i].messages[HistoryTake].at
         = outbox[c][i].messages[1].at + HistoryTake - 1

\* The step taken calls broadcast().
BroadcastStep == Len(bcasts') = Len(bcasts) + 1

\* C13: a call of broadcast() writes the event, as the last thing the step
\* writes, to every socket that is registered and open at the time of the
\* call; a socket that is closing or closed at that time is handed nothing
\* of it, and this stops nothing for the others; and no step that broadcasts
\* hands an error event to any socket.
C13_BroadcastReachesRegistry ==
  [][BroadcastStep =>
       LET ev == bcasts'[Len(bcasts')]
       IN \A d \in Conns :
            /\ (Has(clients, d) /\ readyState'[d] = "OPEN") =>
                 /\ Len(outbox'[d]) > Len(outbox[d])
                 /\ outbox'[d][Len(outbox'[d])] = ev
            /\ readyState'[d] # "OPEN" =>
                 /\ outbox'[d] = outbox[d]
                 /\ \A i \in Idx(Sent(d)) : Sent(d)[i] # ev
            /\ \A i \in Idx(Sent(d)) : Sent(d)[i].type # "error"]_vars

\* A socket with a smaller number is closing and does not hold the join of a
\* registered, open socket, which holds it.
C13_Witness ==
  \E c \in Conns : \E d \in Conns :
    /\ c < d
    /\ readyState[c] = "CLOSING"
    /\ Active(d)
    /\ \E i \in Idx(outbox[d]) : IsPresence(outbox[d][i], "join", d)
    /\ \A i \in Idx(Handed(c)) : ~IsPresence(Handed(c)[i], "join", d)

\* Event or create e carries the identity of user row u.
CarriesIdentity(e, u) == e.id = u.id /\ e.name = u.username

\* C14: the create a message frame issues carries the registry identity of
\* the socket the frame arrived on and the reading of the server's clock made
\* when the frame was handled; the row the database appends for it has these
\* three values; and every message event broadcast and every typing event
\* written carries the identity of the user the socket it came from was
\* registered for.  None of them depends on an id the frame supplies.
C14_IdentityFromRegistry ==
  /\ [][ObjectStep("message") =>
          \A p \in pending' \ pending :
            /\ p.ws = last'.ws
            /\ p.sender = clients[p.ws]
            /\ p.now = now'
            /\ now' > now]_vars
  /\ [][\A p \in pending :
          (p.st = "sent" /\ [p EXCEPT !.st = "stored"] \in pending') =>
            /\ Len(store') = Len(store) + 1
            /\ store'[Len(store')].userId = FindUnique(session[p.ws]).id
            /\ store'[Len(store')].username = FindUnique(session[p.ws]).username
            /\ store'[Len(store')].createdAt = p.now]_vars
  /\ [](\A p \in pending :
          /\ CarriesIdentity([id |-> p.sender.id, name |-> p.sender.name],
                             FindUnique(session[p.ws]))
          /\ p.now <= now)
  /\ [](\A i \in Idx(bcasts) :
          bcasts[i].type = "message" =>
            /\ CarriesIdentity(bcasts[i], FindUnique(session[bcasts[i].src]))
            /\ bcasts[i].at <= now)
  /\ [](\A c \in Conns : \A i \in Idx(outbox[c]) :
          outbox[c][i].type \in {"message", "typing"} =>
            CarriesIdentity(outbox[c][i], FindUnique(session[outbox[c][i].src])))

\* The last frame handled was a message of socket 1 that claims the id of
\* user 2; it is stored and relayed to another socket under the identity of
\* user 1.
C14_Witness ==
  \E d \in Conns \ {1} : \E i \in Idx(outbox[d]) :
    /\ last = [ws |-> 1, frame |-> ObjectFrame("message", Str(<<"a">>), Undef, Num(2))]
    /\ outbox[d][i].type = "message"
    /\ outbox[d][i].op = nframes
    /\ outbox[d][i].id = 1
    /\ store # <<>>
    /\ store[Len(store)].userId = 1

\* C15: per-connection order.  Of two rows of the same user (a user has one
\* connection) the one whose frame was handled first comes first in the
\* table, and of two message events of the same socket every socket holds
\* the one of the earlier frame first.
C15_PerConnectionOrder ==
  /\ \A i, j \in Idx(store) :
       (i < j /\ store[i].userId = store[j].userId) =>
         store[i].createdAt < store[j].createdAt
  /\ \A d \in Conns : \A i, j \in Idx(outbox[d]) :
       (/\ i < j
        /\ outbox[d][i].type = "message"
        /\ outbox[d][j].type = "message"
        /\ outbox[d][i].src = outbox[d][j].src) =>
         outbox[d][i].op < outbox[d][j].op

\* Every event the server has sent or broadcast, to whomever.
AllEvents ==
  {bcasts[i] : i \in Idx(bcasts)}
    \cup UNION {{Handed(c)[i] : i \in Idx(Handed(c))} : c \in Conns}

BroadcastTypes == {"presence", "message", "typing"}

\* C17: a presence, message or typing event is written only to sockets that
\* are in the registry, so no socket holds such an event before its own
\* welcome.
C17_BroadcastOnlyToRegistered ==
  /\ [][\A d \in Conns : \A i \in (Len(outbox[d]) + 1)..Len(outbox'[d]) :
          outbox'[d][i].type \in BroadcastTypes => Has(clients', d)]_vars
  /\ [](\A c \in Conns : \A i \in Idx(outbox[c]) :
          outbox[c][i].type \in BroadcastTypes =>
            \E k \in 1..(i - 1) :
              outbox[c][k].type = "welcome" /\ outbox[c][k].src = c)

\* Row j of the table is listed in history event h.
InHistory(h, j) ==
  \E k \in Idx(h.messages) :
    /\ h.messages[k].at = store[j].createdAt
    /\ h.messages[k] = Entry(store[j])

\* Row j of the table was written to socket c as a message event.
Live(c, j) ==
  \E i \in Idx(outbox[c]) :
    /\ outbox[c][i].type = "message"
    /\ outbox[c][i].at = store[j].createdAt
    /\ outbox[c][i].id = store[j].userId
    /\ outbox[c][i].name = store[j].username
    /\ outbox[c][i].text = store[j].text

\* History event h is full and row j is older than every row it lists: j was
\* not among the 100 most recent rows when the query ran.
TooOld(h, j) ==
  /\ Len(h.messages) = HistoryTake
  /\ \E k \in Idx(store) : j < k /\ h.messages[1].at = store[k].createdAt

\* C18: at-least-once delivery across a join.  An open socket that holds its
\* history holds every row of the table, in the history or as a message
\* event, except the rows that were too old for the query and the row whose
\* create has completed but whose then-callback has yet to run.
C18_AtLeastOnce ==
  \A c \in Conns : \A i \in Idx(outbox[c]) :
    (readyState[c] = "OPEN" /\ outbox[c][i].type = "history") =>
      \A j \in Idx(store) :
        \/ InHistory(outbox[c][i], j)
        \/ Live(c, j)
        \/ TooOld(outbox[c][i], j)
        \/ \E p \in pending : p.st = "stored" /\ p.now = store[j].createdAt

\* An open socket holds a history without the row of a message that was
\* stored after its query ran, and holds that row as a message event.
C18_Witness ==
  \E c \in Conns : \E i \in Idx(outbox[c]) : \E j \in Idx(store) :
    /\ readyState[c] = "OPEN"
    /\ outbox[c][i].type = "history"
    /\ ~InHistory(outbox[c][i], j)
    /\ ~TooOld(outbox[c][i], j)
    /\ Live(c, j)

\* C19: a typing event is handed to a socket only by the step that handles a
\* typing frame, and it is the relay of that frame: it comes from the socket
\* the frame arrived on and carries the frame's isTyping.  No typing event is
\* ever broadcast by broadcast(); registering and closing produce none.
C19_TypingOnlyRelayed ==
  /\ [][\A d \in Conns : \A i \in Idx(Sent(d)) :
          Sent(d)[i].type = "typing" =>
            /\ ObjectStep("typing")
            /\ Sent(d)[i].src = last'.ws
            /\ Sent(d)[i].isTyping = Truthy(last'.frame.isTyping)]_vars
  /\ [](\A i \in Idx(bcasts) : bcasts[i].type # "typing")

\* A socket was told that a peer is typing, then that the peer left, and
\* holds no event saying the peer stopped typing.
C19_Witness ==
  \E c \in Conns : \E d \in Conns \ {c} : \E i, j \in Idx(outbox[d]) :
    /\ i < j
    /\ outbox[d][i].type = "typing"
    /\ outbox[d][i].src = c
    /\ outbox[d][i].isTyping
    /\ IsPresence(outbox[d][j], "leave", c)
    /\ \A k \in Idx(Handed(d)) :
         ~(Handed(d)[k].type = "typing" /\ Handed(d)[k].src = c /\ ~Handed(d)[k].isTyping)

\* C20: the registry holds live sockets only: a socket whose close handler
\* has run is not in the registry, whenever its lookup resolves.
C20_RegistryOnlyLive ==
  \A c \in Conns : readyState[c] = "CLOSED" => ~Has(clients, c)

\* C21: once a socket has closed, every join broadcast for it is followed in
\* the order of the broadcasts by a leave for it; so no join is broadcast for
\* a socket whose close handler has run.
C21_NoJoinAfterClose ==
  \A c \in Conns : \A i \in Idx(bcasts) :
    (readyState[c] = "CLOSED" /\ IsPresence(bcasts[i], "join", c)) =>
      \E j \in Idx(bcasts) : i < j /\ IsPresence(bcasts[j], "leave", c)

\* C22: every leave broadcast for a socket comes, in the order of the
\* broadcasts, after a join broadcast for the same socket.
C22_LeavePrecededByJoin ==
  \A c \in Conns : \A j \in Idx(bcasts) :
    IsPresence(bcasts[j], "leave", c) =>
      \E i \in Idx(bcasts) : i < j /\ IsPresence(bcasts[i], "join", c)

\* C23: no message event of a socket is broadcast after the leave of that
\* socket.
C23_NoMessageAfterLeave ==
  \A i, j \in Idx(bcasts) :
    (i < j /\ bcasts[i].type = "presence" /\ bcasts[i].action = "leave") =>
      ~(bcasts[j].type = "message" /\ bcasts[j].src = bcasts[i].src)

\* C24: no duplicate across a join.  No row of the table is both listed in
\* the history a socket holds and held by that socket as a message event.
C24_NoDuplicateAcrossJoin ==
  \A c \in Conns : \A i \in Idx(outbox[c]) :
    outbox[c][i].type = "history" =>
      \A j \in Idx(store) : ~(InHistory(outbox[c][i], j) /\ Live(c, j))

\* The step taken dispatches a frame to the message branch with a text that
\* is not blank, or to the typing branch.
SenderLookupStep ==
  \/ ObjectStep("message") /\ ~IsBlank(last'.frame.text)
  \/ ObjectStep("typing")

\* C25: when the handler looks up the sender of a message or typing frame,
\* the socket the frame arrived on is in the registry, and no exception
\* leaves the handler.
C25_SenderAlwaysRegistered ==
  [][SenderLookupStep => (Has(clients, last'.ws) /\ uncaught' = uncaught)]_vars

====
